---------------------------- MODULE Spec2Model ----------------------------
(***************************************************************************)
(* A model of dump3.py: the exclusion pattern builder, the directory and   *)
(* file classifiers, the tree printer and the walk of scan_folder, the     *)
(* chunked writer, process_file and the argument loop of main.             *)
(*                                                                         *)
(* A Python str is a sequence of one-character strings, so that endswith,  *)
(* lower, replace, strip and fnmatch are computed as the code computes    *)
(* them.  A path is kept as the sequence of its components and joined     *)
(* with "/" where the code looks at the text of the path.                 *)
(***************************************************************************)
EXTENDS Integers, Sequences, FiniteSets, TLC

----------------------------------------------------------------------------
(* str methods *)

startswith(s, pre) == Len(s) >= Len(pre) /\ SubSeq(s, 1, Len(pre)) = pre

endswith(s, suf) ==
    Len(s) >= Len(suf) /\ SubSeq(s, Len(s) - Len(suf) + 1, Len(s)) = suf

lowerChar(c) ==
    CASE c = "A" -> "a" [] c = "B" -> "b" [] c = "C" -> "c" [] c = "D" -> "d"
      [] c = "E" -> "e" [] c = "G" -> "g" [] c = "I" -> "i" [] c = "L" -> "l"
      [] c = "M" -> "m" [] c = "N" -> "n" [] c = "O" -> "o" [] c = "P" -> "p"
      [] c = "R" -> "r" [] c = "S" -> "s" [] c = "T" -> "t" [] c = "U" -> "u"
      [] c = "V" -> "v" [] c = "X" -> "x" [] c = "Y" -> "y"
      [] OTHER -> c

lower(s) == [i \in 1..Len(s) |-> lowerChar(s[i])]

\* s.replace('\\', '/')
replaceBackslash(s) == [i \in 1..Len(s) |-> IF s[i] = "\\" THEN "/" ELSE s[i]]

RECURSIVE lstrip(_, _)
lstrip(s, cs) == IF s # <<>> /\ s[1] \in cs THEN lstrip(Tail(s), cs) ELSE s

RECURSIVE rstrip(_, _)
rstrip(s, cs) ==
    IF s # <<>> /\ s[Len(s)] \in cs THEN rstrip(SubSeq(s, 1, Len(s) - 1), cs) ELSE s

strip(s, cs) == rstrip(lstrip(s, cs), cs)

Whitespace == {" ", "\t", "\n"}

\* line.split('#')[0]
RECURSIVE beforeHash(_)
beforeHash(s) ==
    IF s = <<>> \/ s[1] = "#" THEN <<>> ELSE <<s[1]>> \o beforeHash(Tail(s))

----------------------------------------------------------------------------
(* fnmatch.fnmatch(name, pat) on POSIX: "*" any run of characters ("/"     *)
(* included), "?" one character, "[seq]" and "[!seq]" one character in or  *)
(* not in seq (an unclosed "[" is a literal).  Ranges "a-z" are left out:  *)
(* no pattern of the model holds "-".                                      *)

\* the index of the "]" closing the class opened at p[j], 0 when none
RECURSIVE closeFrom(_, _)
closeFrom(p, k) ==
    IF k > Len(p) THEN 0 ELSE IF p[k] = "]" THEN k ELSE closeFrom(p, k + 1)

classEnd(p, j) ==
    LET k1 == IF j + 1 <= Len(p) /\ p[j + 1] = "!" THEN j + 2 ELSE j + 1
        k2 == IF k1 <= Len(p) /\ p[k1] = "]" THEN k1 + 1 ELSE k1
    IN  closeFrom(p, k2)

inClass(c, p, j, e) ==
    LET neg   == p[j + 1] = "!"
        first == IF neg THEN j + 2 ELSE j + 1
        chars == {p[k] : k \in first..(e - 1)}
    IN  IF neg THEN c \notin chars ELSE c \in chars

RECURSIVE matchFrom(_, _, _, _)
matchFrom(s, i, p, j) ==
    IF j > Len(p) THEN i > Len(s)
    ELSE IF p[j] = "*"
         THEN IF j < Len(p) /\ p[j + 1] = "*"
              THEN matchFrom(s, i, p, j + 1)    \* a run of "*" is one "*"
              ELSE matchFrom(s, i, p, j + 1)
                   \/ (i <= Len(s) /\ matchFrom(s, i + 1, p, j))
    ELSE IF p[j] = "?"
         THEN i <= Len(s) /\ matchFrom(s, i + 1, p, j + 1)
    ELSE IF p[j] = "[" /\ classEnd(p, j) # 0
         THEN /\ i <= Len(s)
              /\ inClass(s[i], p, j, classEnd(p, j))
              /\ matchFrom(s, i + 1, p, classEnd(p, j) + 1)
    ELSE i <= Len(s) /\ s[i] = p[j] /\ matchFrom(s, i + 1, p, j + 1)

fnmatch(name, pat) == matchFrom(name, 1, pat, 1)

----------------------------------------------------------------------------
(* 2. EXCLUSION PATTERN FUNCTIONS *)

get_excluded_extensions ==
    { \* Images
      <<"p","n","g">>, <<"j","p","g">>, <<"j","p","e","g">>, <<"g","i","f">>, <<"s","v","g">>, <<"i","c","o">>, <<"t","i","f">>, <<"t","i","f","f">>, <<"b","m","p">>,
      \* Audio/Video
      <<"m","p","4">>, <<"m","p","3">>, <<"w","a","v">>, <<"o","g","g">>, <<"f","l","a","c">>, <<"w","e","b","m">>, <<"m","o","v">>, <<"a","v","i">>,
      \* Archives
      <<"r","a","r">>, <<"7","z">>, <<"t","a","r">>, <<"g","z">>, <<"b","z","2">>, <<"z","i","p">>, <<"x","z">>,
      \* Data/Config
      <<"c","s","v">>, <<"j","s","o","n">>, <<"y","a","m","l">>, <<"y","m","l">>,
      \* JavaScript/TypeScript
      <<"j","s">>, <<"j","s","x">>, <<"t","s">>, <<"t","s","x">>, <<"m","j","s">>, <<"c","j","s">>, <<"m","t","s">>, <<"c","t","s">>,
      \* Python
      <<"p","y","c">>, <<"p","y","o">>, <<"p","y","d">>,
      \* Other
      <<"j","a","r">>, <<"p","e","m">>, <<"l","o","g">> }

common_paths ==
    { <<".","g","i","t">>, <<".","i","d","e","a">>, <<".","v","e","n","v">>, <<"v","e","n","v">>, <<"n","o","d","e","_","m","o","d","u","l","e","s">>,
      <<"b","u","i","l","d">>, <<"d","i","s","t">>, <<".","t","o","x">>, <<"c","o","v","e","r","a","g","e">>, <<"h","t","m","l","c","o","v">>,
      <<".","m","y","p","y","_","c","a","c","h","e">>, <<".","r","u","f","f","_","c","a","c","h","e">> }

\* the patterns added before any exclusion file is read
default_patterns ==
    UNION {{ <<"*",".">> \o ext, <<"*","*","/","*",".">> \o ext } : ext \in get_excluded_extensions}
    \cup
    UNION {{ path, path \o <<"/","*","*">>, <<"*","*","/">> \o path \o <<"/","*","*">> } : path \in common_paths}

\* the patterns one line of an exclusion file adds
line_patterns(rawline) ==
    LET line    == strip(beforeHash(rawline), Whitespace)
        pattern == strip(replaceBackslash(line), {"/"})
    IN  IF line = <<>> THEN {}
        ELSE IF pattern = <<>> THEN {}
        ELSE IF startswith(pattern, <<"*","*","/">>) THEN {pattern}
        ELSE IF startswith(pattern, <<"*",".">>) THEN {pattern, <<"*","*","/">> \o pattern}
        ELSE IF \E k \in 1..Len(pattern) : pattern[k] \in {"*", "?", "["}
             THEN {pattern}
        ELSE {pattern, pattern \o <<"/","*","*">>, <<"*","*","/">> \o pattern \o <<"/","*","*">>}

(* An exclusion file as the file system presents it: "missing" (or an     *)
(* empty path), "unreadable" (it exists, and open or the read raises) or   *)
(* "ok" with its lines.  The loop only adds to a set, so the lines are a   *)
(* set.  The result is the set returned, or raised when an open or a read  *)
(* raised: nothing in parse_exclusion_files catches it.                    *)
parse_exclusion_files(file_paths) ==
    IF \E k \in 1..Len(file_paths) : file_paths[k].status = "unreadable"
    THEN [raised |-> TRUE, patterns |-> {}]
    ELSE [raised   |-> FALSE,
          patterns |->
            default_patterns \cup
            UNION {UNION {line_patterns(l) : l \in file_paths[k].lines} :
                    k \in {n \in 1..Len(file_paths) : file_paths[n].status = "ok"}}]
----------------------------------------------------------------------------
(* The file system as os.path.exists and os.listdir see it from the       *)
(* process's working directory: the directories and the files below it,    *)
(* each a sequence of names, and the directories listdir raises OSError on.*)

\* os.path.join(...) of the components, as text
RECURSIVE pathstr(_)
pathstr(rel_path) ==
    IF rel_path = <<>> THEN <<>>
    ELSE IF Len(rel_path) = 1 THEN rel_path[1]
    ELSE rel_path[1] \o <<"/">> \o pathstr(Tail(rel_path))

\* the path a relative path names: "." components name the directory itself
resolve(rel_path) == SelectSeq(rel_path, LAMBDA c : c # <<".">>)

exists(fs, rel_path) ==
    resolve(rel_path) = <<>> \/ resolve(rel_path) \in fs.dirs \cup fs.files

\* os.listdir succeeds: a directory that can be read
listable(fs, rel_path) ==
    /\ resolve(rel_path) = <<>> \/ resolve(rel_path) \in fs.dirs
    /\ resolve(rel_path) \notin fs.unlistable

entries(fs, p) ==
    {q[Len(q)] : q \in {r \in fs.dirs \cup fs.files :
                            Len(r) = Len(p) + 1 /\ SubSeq(r, 1, Len(p)) = p}}

listdir(fs, rel_path) == entries(fs, resolve(rel_path))

PROTECTED_EXTENSIONS ==
    { <<".","p","y">>, <<".","g","r","o","o","v","y">>, <<".","r">>, <<".","r","m","d">>, <<".","m","d">>, <<".","i","p","y","n","b">> }

ALWAYS_SKIP ==
    { <<".","g","i","t">>, <<".","i","d","e","a">>, <<".","v","e","n","v">>, <<"v","e","n","v">>, <<"n","o","d","e","_","m","o","d","u","l","e","s">>,
      <<"b","u","i","l","d">>, <<"d","i","s","t">>, <<".","t","o","x">>, <<"c","o","v","e","r","a","g","e">>, <<"h","t","m","l","c","o","v">> }

\* the probe of both branches: some listed name ends with a protected
\* extension; an OSError of listdir moves on to the next extension
contains_protected(fs, rel_path) ==
    /\ exists(fs, rel_path)
    /\ \E ext \in PROTECTED_EXTENSIONS :
          /\ listable(fs, rel_path)
          /\ \E f \in listdir(fs, rel_path) : endswith(f, ext)

\* one turn of the loop over exclusion_patterns: the pattern matches
pattern_matches_directory(pat, dir_name, normalized_path) ==
    LET pattern == lower(pat)
        stem    == IF endswith(pattern, <<"/","*","*">>)
                   THEN SubSeq(pattern, 1, Len(pattern) - 3) ELSE pattern
    IN  /\ pattern # <<".","*">>
        /\ fnmatch(dir_name, stem) \/ fnmatch(normalized_path, stem)

\* TRUE: skip the directory.  fs is the file system seen from the working
\* directory, which is where the relative path rel_path is looked up.
should_skip_directory(dir_name, rel_path, exclusion_patterns, fs) ==
    IF dir_name \in ALWAYS_SKIP THEN TRUE
    ELSE LET normalized_path == lower(replaceBackslash(pathstr(rel_path)))
             name            == lower(dir_name)
         IN  IF startswith(name, <<".">>) /\ name # <<".">>
             THEN ~contains_protected(fs, rel_path)
             ELSE IF \E pat \in exclusion_patterns :
                        pattern_matches_directory(pat, name, normalized_path)
                  THEN ~contains_protected(fs, rel_path)
                  ELSE FALSE

(* should_exclude_file returns True, False or, where the function ends     *)
(* without a return statement, None; its callers test the result's truth.  *)
PyTrue  == "True"
PyFalse == "False"
PyNone  == "None"
truthy(v) == v = PyTrue

\* should_exclude_file with the protected extensions looked at before the
\* reserved name
should_exclude_file_protected_first(file_name, file_rel_path, exclusion_patterns) ==
    IF \E ext \in PROTECTED_EXTENSIONS : endswith(lower(file_name), ext)
    THEN PyFalse
    ELSE IF lower(file_name) = <<"l","i","c","e","n","s","e",".","m","d">> THEN PyTrue
    ELSE PyNone

should_exclude_file(file_name, file_rel_path, exclusion_patterns) ==
    IF lower(file_name) = <<"l","i","c","e","n","s","e",".","m","d">> THEN PyTrue
    ELSE LET normalized_name == lower(file_name)
             normalized_path == lower(replaceBackslash(pathstr(file_rel_path)))
         IN  IF \E ext \in PROTECTED_EXTENSIONS : endswith(normalized_name, ext)
             THEN PyFalse
             ELSE PyNone
----------------------------------------------------------------------------
(* 4. PROCESSING FUNCTION *)
(* What a file holds, as process_file meets it: the lines readline         *)
(* returns, each with the skip substrings it contains; fail_at, the number *)
(* of lines read before open (0) or a readline raises, -1 when nothing     *)
(* raises; for a notebook, whether json.load accepts it, and the lines of  *)
(* the notebook as json.dumps writes it back.                              *)

Line(n, subs) == [id |-> n, contains |-> subs]

file_content(name) ==
    IF name = <<"b","a","d",".","t","x","t">>
    THEN [lines |-> <<Line(1, {}), Line(2, {<<"S","E","C","R","E","T">>}), Line(3, {})>>,
          fail_at |-> 3, json_ok |-> FALSE, json_lines |-> <<>>]
    ELSE IF name = <<"l","o","c","k","e","d",".","t","x","t">>
    THEN [lines |-> <<>>, fail_at |-> 0, json_ok |-> FALSE, json_lines |-> <<>>]
    ELSE IF name = <<"b","a","d",".","i","p","y","n","b">>
    THEN [lines |-> <<Line(1, {}), Line(2, {})>>, fail_at |-> -1,
          json_ok |-> FALSE, json_lines |-> <<>>]
    ELSE IF name = <<"n","b",".","i","p","y","n","b">>
    THEN [lines |-> <<Line(1, {})>>, fail_at |-> -1, json_ok |-> TRUE,
          json_lines |-> <<Line(11, {}), Line(12, {<<"S","E","C","R","E","T">>})>>]
    ELSE [lines |-> <<Line(1, {<<"S","E","C","R","E","T">>}), Line(2, {})>>, fail_at |-> -1,
          json_ok |-> FALSE, json_lines |-> <<>>]

\* os.path.splitext(file_path)[1].lower() == ".ipynb"
is_ipynb(name) ==
    /\ endswith(lower(name), <<".","i","p","y","n","b">>)
    /\ \E k \in 1..(Len(name) - 6) : name[k] # "."

\* skip_substrings and any(sub in line for sub in skip_substrings)
skipped(line, skip_substrings) ==
    \E k \in 1..Len(skip_substrings) : skip_substrings[k] \in line.contains

\* the safe_write calls for the lines that are not skipped
kept_lines(lines, skip_substrings) ==
    LET keep(l) == ~skipped(l, skip_substrings)
    IN  [k \in 1..Len(SelectSeq(lines, keep)) |->
            [kind |-> "line", line |-> SelectSeq(lines, keep)[k]]]

\* process_file with no except clause: a failure of open, of a read or of
\* json.load leaves the function as an exception
process_file_uncaught(name, file_rel_path, skip_substrings, strip_ipynb_outputs) ==
    LET c      == file_content(name)
        header == <<[kind |-> "content of", path |-> file_rel_path]>>
    IN  IF is_ipynb(name) /\ strip_ipynb_outputs
        THEN IF c.fail_at >= 0 \/ ~c.json_ok
             THEN [raised |-> TRUE, writes |-> header]
             ELSE [raised |-> FALSE,
                   writes |-> header \o kept_lines(c.json_lines, skip_substrings)]
        ELSE IF c.fail_at >= 0
             THEN [raised |-> TRUE,
                   writes |-> header \o
                       kept_lines(SubSeq(c.lines, 1, c.fail_at), skip_substrings)]
             ELSE [raised |-> FALSE,
                   writes |-> header \o kept_lines(c.lines, skip_substrings)]

(* process_file: the safe_write calls it makes, in order, and whether it   *)
(* leaves by an exception.  Every statement that reads the file is inside  *)
(* a try whose except clause writes one line and returns.                  *)
process_file(name, file_rel_path, skip_substrings, strip_ipynb_outputs) ==
    LET c      == file_content(name)
        header == <<[kind |-> "content of", path |-> file_rel_path]>>
    IN  IF is_ipynb(name) /\ strip_ipynb_outputs
        THEN IF c.fail_at >= 0 \/ ~c.json_ok
             THEN [raised |-> FALSE,
                   writes |-> header \o <<[kind |-> "error", what |-> "ipynb"]>>]
             ELSE [raised |-> FALSE,
                   writes |-> header \o kept_lines(c.json_lines, skip_substrings)]
        ELSE IF c.fail_at >= 0
             THEN [raised |-> FALSE,
                   writes |-> header \o
                       kept_lines(SubSeq(c.lines, 1, c.fail_at), skip_substrings) \o
                       <<[kind |-> "error", what |-> "reading"]>>]
             ELSE [raised |-> FALSE,
                   writes |-> header \o kept_lines(c.lines, skip_substrings)]
----------------------------------------------------------------------------
(* The state.  Each specification below runs one part of the program; the  *)
(* variables of the other parts stay as they are.                          *)

\* the classifiers called on their own
VARIABLE cls      \* the last classifier call: its arguments and its result

\* a ChunkedFileWriter
VARIABLES
    chunk_size_bytes,       \* the byte budget of a part
    current_file_index,     \* the number of the next part
    current_file,           \* the number of the part written to, 0 for None
    current_size,           \* the bytes counted for the current part
    parts,                  \* the part files
    calls                   \* the write calls made and whether close was called

writerVars ==
    <<chunk_size_bytes, current_file_index, current_file, current_size, parts, calls>>

\* main, and the parameters it passes to scan_folder
VARIABLES
    remaining_args,         \* sys.argv[3:]
    arg_i,                  \* i, from 0
    exclusion_files,
    file_types,             \* <<>> for None
    max_chunk_size_mb,      \* <<>> for None, <<n>> for the integer n
    skip_substrings,
    strip_ipynb_outputs,
    user_patterns,          \* what parse_exclusion_files returned, less default_patterns
    mainpc                  \* "args", "parse", "scan", "exit 1", "raised"

mainVars ==
    <<remaining_args, arg_i, exclusion_files, file_types, max_chunk_size_mb,
      skip_substrings, strip_ipynb_outputs, user_patterns, mainpc>>

\* exclusion_patterns, once parse_exclusion_files has returned.  The state
\* keeps the patterns the exclusion files added; default_patterns are in
\* every set the function returns.
exclusion_patterns == default_patterns \cup user_patterns

\* scan_folder
VARIABLES
    fs,             \* the directories and files below start_path
    cwdfs,          \* what relative paths name from the working directory
    tree,           \* the entries print_directory_structure shows
    walk_stack,     \* the directories os.walk has still to yield
    walk_files,     \* the files of the yielded directory not yet looked at
    visited,        \* the directories os.walk has yielded
    output,         \* one record per "File:" section, with its safe_write calls
    scanpc          \* "tree", "walk", "done", "raised"

scanVars == <<fs, cwdfs, tree, walk_stack, walk_files, visited, output, scanpc>>

\* what a step of one part leaves unchanged
restOfCls    == <<writerVars, mainVars, scanVars>>
restOfWriter == <<cls, mainVars, scanVars>>
restOfMain   == <<cls, writerVars, scanVars>>
restOfScan   == <<cls, writerVars, mainVars>>
----------------------------------------------------------------------------
(* The classifiers as functions of their arguments: each step calls one of *)
(* them on arguments drawn from the sets below and records the call.       *)

MaxFileLines == 1     \* lines of the user's exclusion file

UserLines ==
    { <<"d","o","c","s">>, <<"*",".","t","x","t">>, <<"*","/","*">>, <<"*","*","/","t","m","p">>, <<" ","/","o","u","t","/"," ","#"," ","x">>, <<"s","r","c","\\","g","e","n">>,
      <<".","*">>, <<"*",".","p","y">>, <<"[","d","t","]","m","p">> }

\* zero exclusion files, or one readable file of at most MaxFileLines lines
PatternInputs ==
    {<<>>} \cup
    {<<[status |-> "ok", lines |-> L]>> :
        L \in {M \in SUBSET UserLines : Cardinality(M) <= MaxFileLines}}

BlocklistedFileNames == {<<"x",".">> \o ext : ext \in get_excluded_extensions}

ClassifyFileNames ==
    BlocklistedFileNames \cup
    { <<"l","i","c","e","n","s","e",".","m","d">>, <<"L","I","C","E","N","S","E",".","m","d">>, <<"L","i","c","e","n","s","e",".","M","D">>, <<"a",".","p","y">>, <<"A",".","P","Y">>,
      <<"r","e","a","d","m","e",".","m","d">>, <<"b",".","R">>, <<"n","b",".","i","p","y","n","b">>, <<"n","o","t","e","s",".","t","x","t">>, <<"X",".","P","N","G">>, <<"M","a","k","e","f","i","l","e">> }

ClassifyDirNames ==
    common_paths \cup
    { <<".","c","o","n","f","i","g">>, <<".">>, <<"d","o","c","s">>, <<"s","r","c">>, <<"t","m","p">>, <<"o","u","t">>, <<"B","u","i","l","d">>,
      <<"N","o","d","e","_","M","o","d","u","l","e","s">>, <<".","C","o","n","f","i","g">>, <<"g","e","n">> }

\* a directory at path p holding these names
DirWith(p, kids, canList) ==
    [dirs       |-> {p},
     files      |-> {p \o <<k>> : k \in kids},
     unlistable |-> IF canList THEN {} ELSE {p}]

NoDir == [dirs |-> {}, files |-> {}, unlistable |-> {}]

(* What a classified directory at path p holds below the scan root         *)
(* (rootfs), and what the same relative path names from the working       *)
(* directory (cwdfs): the same directory when the tool is run from the     *)
(* scan root, another directory or nothing when it is run from elsewhere.  *)
Surroundings(p) ==
    {[rootfs |-> DirWith(p, kids, TRUE), cwdfs |-> DirWith(p, kids, TRUE)] :
        kids \in { {}, {<<"b",".","t","x","t">>}, {<<"a",".","p","y">>, <<"b",".","t","x","t">>}, {<<"A",".","P","Y">>} }}
    \cup
    { [rootfs |-> DirWith(p, {<<"a",".","p","y">>, <<"b",".","t","x","t">>}, FALSE),
       cwdfs  |-> DirWith(p, {<<"a",".","p","y">>, <<"b",".","t","x","t">>}, FALSE)],
      [rootfs |-> DirWith(p, {<<"a",".","p","y">>, <<"b",".","t","x","t">>}, TRUE), cwdfs |-> NoDir],
      [rootfs |-> DirWith(p, {<<"b",".","t","x","t">>}, TRUE),
       cwdfs  |-> DirWith(p, {<<"a",".","p","y">>}, TRUE)] }

\* the calls the model draws.  The callers build the relative path of an
\* entry of the scan root as name (os.path.relpath) or ./name
\* (os.path.join(".", name)), and of an entry of src/ as src/name.
FileCalls ==
    {[op |-> "file", name |-> n, rel_path |-> p \o <<n>>, files |-> files] :
        n \in ClassifyFileNames, p \in {<<<<".">>>>, <<<<"s","r","c">>>>},
        files \in PatternInputs}

DirCalls ==
    UNION {{[op |-> "dir", name |-> n, rel_path |-> p \o <<n>>, files |-> files,
             rootfs |-> s.rootfs, cwdfs |-> s.cwdfs] :
               s \in Surroundings(resolve(p \o <<n>>)), files \in PatternInputs} :
           n \in ClassifyDirNames, p \in {<<>>, <<<<".">>>>, <<<<"s","r","c">>>>}}

ClsInit ==
    /\ cls \in {[pc |-> "call", call |-> call, result |-> PyNone] :
                    call \in FileCalls \cup DirCalls}
    \* the other parts are at rest
    /\ chunk_size_bytes = 0
    /\ current_file_index = 0
    /\ current_file = 0
    /\ current_size = 0
    /\ parts = <<>>
    /\ calls = [writes |-> <<>>, closed |-> TRUE]
    /\ remaining_args = <<>>
    /\ arg_i = 0
    /\ exclusion_files = <<>>
    /\ file_types = <<>>
    /\ max_chunk_size_mb = <<>>
    /\ skip_substrings = <<>>
    /\ strip_ipynb_outputs = TRUE
    /\ user_patterns = {}
    /\ mainpc = "idle"
    /\ fs = NoDir
    /\ cwdfs = NoDir
    /\ tree = {}
    /\ walk_stack = <<>>
    /\ walk_files = {}
    /\ visited = {}
    /\ output = <<>>
    /\ scanpc = "idle"

ClassifyFile ==
    /\ cls.pc = "call"
    /\ cls.call.op = "file"
    /\ cls' = [cls EXCEPT !.pc = "return", !.result =
                 should_exclude_file(cls.call.name, cls.call.rel_path,
                                     parse_exclusion_files(cls.call.files).patterns)]
    /\ UNCHANGED restOfCls

ClassifyDirectory ==
    /\ cls.pc = "call"
    /\ cls.call.op = "dir"
    /\ cls' = [cls EXCEPT !.pc = "return", !.result =
                 should_skip_directory(cls.call.name, cls.call.rel_path,
                                       parse_exclusion_files(cls.call.files).patterns,
                                       cls.call.cwdfs)]
    /\ UNCHANGED restOfCls

ClsNext == ClassifyFile \/ ClassifyDirectory

----------------------------------------------------------------------------
(* 1. CHUNKED WRITER *)
(* parts[k] is the file <base>_part_<k><ext>: the byte counts of the write *)
(* calls it holds, whether it is open, and how often it was closed.        *)

MaxChunkSize == 2     \* chunk_size_bytes is drawn from 1..MaxChunkSize
MaxPayload   == 3     \* len(text_bytes) of a write is drawn from 0..MaxPayload
MaxWrites    == 4     \* write calls of one run

NewPart == [writes |-> <<>>, open |-> TRUE, closes |-> 0]

\* self.current_file.close() for the parts that closing applies to
closeCurrent(ps, cur) ==
    [k \in 1..Len(ps) |->
        IF k = cur
        THEN [ps[k] EXCEPT !.open = FALSE, !.closes = @ + 1]
        ELSE ps[k]]

\* _open_new_file: the parts once the current one, if any, is closed and
\* the next one is opened
open_new_file(ps, cur) ==
    Append(IF cur # 0 THEN closeCurrent(ps, cur) ELSE ps, NewPart)

\* __init__ followed by the first _open_new_file
WriterInit ==
    /\ chunk_size_bytes \in 1..MaxChunkSize
    /\ current_file_index = 2
    /\ current_file = 1
    /\ current_size = 0
    /\ parts = open_new_file(<<>>, 0)
    /\ calls = [writes |-> <<>>, closed |-> FALSE]
    \* the other parts are at rest
    /\ cls = [pc |-> "idle"]
    /\ remaining_args = <<>>
    /\ arg_i = 0
    /\ exclusion_files = <<>>
    /\ file_types = <<>>
    /\ max_chunk_size_mb = <<>>
    /\ skip_substrings = <<>>
    /\ strip_ipynb_outputs = TRUE
    /\ user_patterns = {}
    /\ mainpc = "idle"
    /\ fs = NoDir
    /\ cwdfs = NoDir
    /\ tree = {}
    /\ walk_stack = <<>>
    /\ walk_files = {}
    /\ visited = {}
    /\ output = <<>>
    /\ scanpc = "idle"

\* write with the size test made after the text is written
write_rollover_after(n) ==
    /\ ~calls.closed
    /\ Len(calls.writes) < MaxWrites
    /\ calls' = [calls EXCEPT !.writes = Append(@, n)]
    /\ IF current_size + n > chunk_size_bytes
       THEN /\ parts' = open_new_file(
                            [parts EXCEPT ![current_file].writes = Append(@, n)],
                            current_file)
            /\ current_file' = current_file_index
            /\ current_file_index' = current_file_index + 1
            /\ current_size' = 0
       ELSE /\ parts' = [parts EXCEPT ![current_file].writes = Append(@, n)]
            /\ current_size' = current_size + n
            /\ UNCHANGED <<current_file, current_file_index>>
    /\ UNCHANGED chunk_size_bytes
    /\ UNCHANGED restOfWriter

\* write with the size test on the text alone, the current size forgotten
write_ignoring_current_size(n) ==
    /\ ~calls.closed
    /\ Len(calls.writes) < MaxWrites
    /\ calls' = [calls EXCEPT !.writes = Append(@, n)]
    /\ IF n > chunk_size_bytes
       THEN /\ parts' = [open_new_file(parts, current_file)
                            EXCEPT ![current_file_index].writes = <<n>>]
            /\ current_file' = current_file_index
            /\ current_file_index' = current_file_index + 1
            /\ current_size' = n
       ELSE /\ parts' = [parts EXCEPT ![current_file].writes = Append(@, n)]
            /\ current_size' = current_size + n
            /\ UNCHANGED <<current_file, current_file_index>>
    /\ UNCHANGED chunk_size_bytes
    /\ UNCHANGED restOfWriter

\* write(text) with len(text_bytes) = n, on a writer that was not closed,
\* when the call returns: the open of a rollover succeeds, and a text that
\* fits goes to a current file that is open
write(n) ==
    /\ ~calls.closed
    /\ Len(calls.writes) < MaxWrites
    /\ calls' = [calls EXCEPT !.writes = Append(@, n)]
    /\ IF current_size + n > chunk_size_bytes
       THEN /\ parts' = [open_new_file(parts, current_file)
                            EXCEPT ![current_file_index].writes = <<n>>]
            /\ current_file' = current_file_index
            /\ current_file_index' = current_file_index + 1
            /\ current_size' = n
       ELSE /\ parts[current_file].open
            /\ parts' = [parts EXCEPT ![current_file].writes = Append(@, n)]
            /\ current_size' = current_size + n
            /\ UNCHANGED <<current_file, current_file_index>>
    /\ UNCHANGED chunk_size_bytes
    /\ UNCHANGED restOfWriter

\* close
close ==
    /\ ~calls.closed
    /\ calls' = [calls EXCEPT !.closed = TRUE]
    /\ IF current_file # 0
       THEN /\ parts' = closeCurrent(parts, current_file)
            /\ current_file' = 0
       ELSE UNCHANGED <<parts, current_file>>
    /\ UNCHANGED <<chunk_size_bytes, current_file_index, current_size>>
    /\ UNCHANGED restOfWriter

WriterNext == (\E n \in 0..MaxPayload : write(n)) \/ close
----------------------------------------------------------------------------
(* The writer when the open of a part raises.  _open_new_file closes the   *)
(* current file, counts the index up and only then opens the next part:    *)
(* when that open raises (a full disk, a directory that went away, a path  *)
(* that is a directory), self.current_file still refers to the file that   *)
(* was just closed and current_size is not reset.  The exception leaves    *)
(* write; process_file catches it around its reads (and then writes its    *)
(* diagnostic, one more write call), scan_folder lets it through to its    *)
(* finally block, which calls close.                                       *)

\* the part whose open raised: its index is used up, no file is open for it
NoPart == [writes |-> <<>>, open |-> FALSE, closes |-> 0]

\* a part that was opened at some time (a closed file was closed by a call)
created(k) == parts[k].open \/ parts[k].closes > 0

\* write(text) with len(text_bytes) = n when the call raises: the open of
\* the rollover fails (OSError), or the text fits and the current file is
\* one that a failed rollover left closed (ValueError)
write_raises(n) ==
    /\ ~calls.closed
    /\ Len(calls.writes) < MaxWrites
    /\ calls' = [calls EXCEPT !.writes = Append(@, n)]
    /\ IF current_size + n > chunk_size_bytes
       THEN /\ parts' = Append(closeCurrent(parts, current_file), NoPart)
            /\ current_file_index' = current_file_index + 1
       ELSE /\ ~parts[current_file].open
            /\ UNCHANGED <<parts, current_file_index>>
    /\ UNCHANGED <<chunk_size_bytes, current_file, current_size>>
    /\ UNCHANGED restOfWriter

WriterLifeNext == WriterNext \/ (\E n \in 0..MaxPayload : write_raises(n))
----------------------------------------------------------------------------
(* 6. MAIN CLI: the loop over sys.argv[3:] and the call of                 *)
(* parse_exclusion_files that follows it.                                  *)

MaxArgs == 3          \* len(sys.argv[3:])

Tokens ==
    { <<".","p","y">>, <<".","m","d">>, <<"-","-","m","a","x","-","c","h","u","n","k","-","s","i","z","e">>, <<"-","-","s","k","i","p","-","s","u","b","s","t","r","i","n","g">>,
      <<"-","-","n","o","-","i","p","y","n","b","-","s","t","r","i","p">>, <<"1">>, <<"e","x",".","t","x","t">>, <<"d","i","r">>, <<"g","o","n","e">> }

RECURSIVE seqsUpTo(_, _)
seqsUpTo(S, n) ==
    IF n = 0 THEN {<<>>}
    ELSE seqsUpTo(S, n - 1) \cup
         {Append(s, x) : s \in {t \in seqsUpTo(S, n - 1) : Len(t) = n - 1}, x \in S}

Digits == {"0", "1", "2", "3", "4", "5", "6", "7", "8", "9"}

\* int(token) returns: the token is a run of decimal digits (a sign,
\* blanks or underscores do not occur in Tokens)
isInt(token) == token # <<>> /\ \A k \in 1..Len(token) : token[k] \in Digits

digit(c) ==
    CASE c = "0" -> 0 [] c = "1" -> 1 [] c = "2" -> 2 [] c = "3" -> 3
      [] c = "4" -> 4 [] c = "5" -> 5 [] c = "6" -> 6 [] c = "7" -> 7
      [] c = "8" -> 8 [] c = "9" -> 9

RECURSIVE int(_)
int(token) ==
    IF token = <<>> THEN 0
    ELSE 10 * int(SubSeq(token, 1, Len(token) - 1)) + digit(token[Len(token)])

(* What is on disk at the paths the command line may name: ex.txt is a     *)
(* readable exclusion file, dir exists and cannot be read as a file (a     *)
(* directory: open raises IsADirectoryError), every other path is missing. *)
exclusion_file_at(path) ==
    IF path = <<"e","x",".","t","x","t">> THEN [status |-> "ok", lines |-> {<<"d","o","c","s">>, <<"*",".","t","x","t">>}]
    ELSE IF path = <<"d","i","r">> THEN [status |-> "unreadable", lines |-> {}]
    ELSE [status |-> "missing", lines |-> {}]

MainInit ==
    /\ remaining_args \in seqsUpTo(Tokens, MaxArgs)
    /\ arg_i = 0
    /\ exclusion_files = <<>>
    /\ file_types = <<>>
    /\ max_chunk_size_mb = <<>>
    /\ skip_substrings = <<>>
    /\ strip_ipynb_outputs = TRUE
    /\ user_patterns = {}
    /\ mainpc = "args"
    \* the other parts are at rest
    /\ cls = [pc |-> "idle"]
    /\ chunk_size_bytes = 0
    /\ current_file_index = 0
    /\ current_file = 0
    /\ current_size = 0
    /\ parts = <<>>
    /\ calls = [writes |-> <<>>, closed |-> TRUE]
    /\ fs = NoDir
    /\ cwdfs = NoDir
    /\ tree = {}
    /\ walk_stack = <<>>
    /\ walk_files = {}
    /\ visited = {}
    /\ output = <<>>
    /\ scanpc = "idle"

\* remaining_args[i], Python's index from 0
arg == remaining_args[arg_i + 1]

InLoop == mainpc = "args" /\ arg_i < Len(remaining_args)

\* if arg.startswith('.'): file_types = remaining_args[i:]; break
ArgFileTypes ==
    /\ InLoop
    /\ startswith(arg, <<".">>)
    /\ file_types' = SubSeq(remaining_args, arg_i + 1, Len(remaining_args))
    /\ mainpc' = "parse"
    /\ UNCHANGED <<remaining_args, arg_i, exclusion_files, max_chunk_size_mb,
                   skip_substrings, strip_ipynb_outputs, user_patterns>>
    /\ UNCHANGED restOfMain

\* elif arg == '--max-chunk-size'
ArgMaxChunkSize ==
    /\ InLoop
    /\ ~startswith(arg, <<".">>)
    /\ arg = <<"-","-","m","a","x","-","c","h","u","n","k","-","s","i","z","e">>
    /\ IF arg_i + 1 < Len(remaining_args) /\ isInt(remaining_args[arg_i + 2])
       THEN /\ max_chunk_size_mb' = <<int(remaining_args[arg_i + 2])>>
            /\ arg_i' = arg_i + 2
            /\ UNCHANGED mainpc
       ELSE /\ mainpc' = "exit 1"
            /\ UNCHANGED <<max_chunk_size_mb, arg_i>>
    /\ UNCHANGED <<remaining_args, exclusion_files, file_types, skip_substrings,
                   strip_ipynb_outputs, user_patterns>>
    /\ UNCHANGED restOfMain

\* elif arg == '--skip-substring'
ArgSkipSubstring ==
    /\ InLoop
    /\ ~startswith(arg, <<".">>)
    /\ arg = <<"-","-","s","k","i","p","-","s","u","b","s","t","r","i","n","g">>
    /\ IF arg_i + 1 < Len(remaining_args)
       THEN /\ skip_substrings' = Append(skip_substrings, remaining_args[arg_i + 2])
            /\ arg_i' = arg_i + 2
            /\ UNCHANGED mainpc
       ELSE /\ mainpc' = "exit 1"
            /\ UNCHANGED <<skip_substrings, arg_i>>
    /\ UNCHANGED <<remaining_args, exclusion_files, file_types, max_chunk_size_mb,
                   strip_ipynb_outputs, user_patterns>>
    /\ UNCHANGED restOfMain

\* elif arg == '--no-ipynb-strip'
ArgNoIpynbStrip ==
    /\ InLoop
    /\ ~startswith(arg, <<".">>)
    /\ arg = <<"-","-","n","o","-","i","p","y","n","b","-","s","t","r","i","p">>
    /\ strip_ipynb_outputs' = FALSE
    /\ arg_i' = arg_i + 1
    /\ UNCHANGED <<remaining_args, exclusion_files, file_types, max_chunk_size_mb,
                   skip_substrings, user_patterns, mainpc>>
    /\ UNCHANGED restOfMain

\* else: exclusion_files.append(arg)
ArgExclusionFile ==
    /\ InLoop
    /\ ~startswith(arg, <<".">>)
    /\ arg \notin {<<"-","-","m","a","x","-","c","h","u","n","k","-","s","i","z","e">>, <<"-","-","s","k","i","p","-","s","u","b","s","t","r","i","n","g">>, <<"-","-","n","o","-","i","p","y","n","b","-","s","t","r","i","p">>}
    /\ exclusion_files' = Append(exclusion_files, arg)
    /\ arg_i' = arg_i + 1
    /\ UNCHANGED <<remaining_args, file_types, max_chunk_size_mb, skip_substrings,
                   strip_ipynb_outputs, user_patterns, mainpc>>
    /\ UNCHANGED restOfMain

\* the while condition fails
ArgsEnd ==
    /\ mainpc = "args"
    /\ arg_i >= Len(remaining_args)
    /\ mainpc' = "parse"
    /\ UNCHANGED <<remaining_args, arg_i, exclusion_files, file_types,
                   max_chunk_size_mb, skip_substrings, strip_ipynb_outputs,
                   user_patterns>>
    /\ UNCHANGED restOfMain

\* exclusion_patterns = parse_exclusion_files(exclusion_files), outside any
\* try: what it raises ends the run before scan_folder is called
ParseExclusionFiles ==
    /\ mainpc = "parse"
    /\ LET result == parse_exclusion_files(
                        [k \in 1..Len(exclusion_files) |->
                            exclusion_file_at(exclusion_files[k])])
       IN  IF result.raised
           THEN mainpc' = "raised" /\ UNCHANGED user_patterns
           ELSE /\ mainpc' = "scan"
                /\ user_patterns' = result.patterns \ default_patterns
    /\ UNCHANGED <<remaining_args, arg_i, exclusion_files, file_types,
                   max_chunk_size_mb, skip_substrings, strip_ipynb_outputs>>
    /\ UNCHANGED restOfMain

MainNext ==
    \/ ArgFileTypes
    \/ ArgMaxChunkSize
    \/ ArgSkipSubstring
    \/ ArgNoIpynbStrip
    \/ ArgExclusionFile
    \/ ArgsEnd
    \/ ParseExclusionFiles
----------------------------------------------------------------------------
(* 3. DIRECTORY TREE PRINTER and 5. SCAN FOLDER *)
(* scan_folder's parameters are the variables main passes: file_types,     *)
(* exclusion_patterns, skip_substrings and strip_ipynb_outputs.            *)

\* os.path.isdir(os.path.join(dir_path, entry))
isdir(p) == p \in fs.dirs

(* _generate_tree(dir_path): the entries shown below dir_path, each with   *)
(* its path from start_path.  The order of the lines and the connector     *)
(* glyphs are not kept.  should_exclude_file is called on every entry, a   *)
(* directory too, before the entry's type is looked at.                    *)
RECURSIVE generate_tree(_)
generate_tree(dir_path) ==
    UNION {
        LET rel_path == dir_path \o <<entry>>
        IN  IF truthy(should_exclude_file(entry, rel_path, exclusion_patterns))
            THEN {}
            ELSE IF isdir(rel_path)
                 THEN IF ~should_skip_directory(entry, rel_path,
                                                exclusion_patterns, cwdfs)
                      THEN {[path |-> rel_path, dir |-> TRUE]}
                           \cup generate_tree(rel_path)
                      ELSE {}
                 ELSE {[path |-> rel_path, dir |-> FALSE]}
        : entry \in entries(fs, dir_path)}

\* safe_write(print_directory_structure(start_path, exclusion_patterns))
PrintDirectoryStructure ==
    /\ scanpc = "tree"
    /\ tree' = generate_tree(<<>>)
    /\ walk_stack' = <<<<>>>>
    /\ scanpc' = "walk"
    /\ UNCHANGED <<fs, cwdfs, walk_files, visited, output>>
    /\ UNCHANGED restOfScan

\* os.path.relpath(root, start_path), as components: "." for the root
relpath(root) == IF root = <<>> THEN <<<<".">>>> ELSE root

\* the orders in which os.listdir may give the names of S
orders(S) ==
    {s \in [1..Cardinality(S) -> S] : \A x \in S : \E k \in DOMAIN s : s[k] = x}

\* the turn of the walk with dirs[:] left as os.walk gave it
WalkDirectory_unfiltered ==
    /\ scanpc = "walk"
    /\ walk_files = {}
    /\ walk_stack # <<>>
    /\ LET root     == Head(walk_stack)
           dirs     == {d \in entries(fs, root) : isdir(root \o <<d>>)}
       IN  /\ visited' = visited \cup {root}
           /\ \E order \in orders(dirs) :
                 walk_stack' = [k \in 1..Len(order) |-> root \o <<order[k]>>]
                               \o Tail(walk_stack)
           /\ walk_files' = {root \o <<f>> :
                               f \in {e \in entries(fs, root) : ~isdir(root \o <<e>>)}}
    /\ UNCHANGED <<fs, cwdfs, tree, output, scanpc>>
    /\ UNCHANGED restOfScan

(* One turn of "for root, dirs, files in os.walk(start_path)": the next    *)
(* directory is yielded and dirs[:] is filtered, so that os.walk goes on   *)
(* into the directories that are left.                                     *)
WalkDirectory ==
    /\ scanpc = "walk"
    /\ walk_files = {}
    /\ walk_stack # <<>>
    /\ LET root     == Head(walk_stack)
           rel_path == relpath(root)
           dirs     == {d \in entries(fs, root) : isdir(root \o <<d>>)}
           kept     == {d \in dirs :
                          ~should_skip_directory(d, rel_path \o <<d>>,
                                                 exclusion_patterns, cwdfs)}
       IN  /\ visited' = visited \cup {root}
           /\ \E order \in orders(kept) :
                 walk_stack' = [k \in 1..Len(order) |-> root \o <<order[k]>>]
                               \o Tail(walk_stack)
           /\ walk_files' = {root \o <<f>> :
                               f \in {e \in entries(fs, root) : ~isdir(root \o <<e>>)}}
    /\ UNCHANGED <<fs, cwdfs, tree, output, scanpc>>
    /\ UNCHANGED restOfScan

\* the file the loop "for file in files" looks at is excluded or filtered
SkipFile(p) ==
    /\ scanpc = "walk"
    /\ p \in walk_files
    /\ LET file          == p[Len(p)]
           rel_path      == relpath(SubSeq(p, 1, Len(p) - 1))
           file_rel_path == rel_path \o <<file>>
       IN  \/ truthy(should_exclude_file(file, file_rel_path, exclusion_patterns))
           \/ /\ file_types # <<>>
              /\ ~ \E k \in 1..Len(file_types) :
                      endswith(lower(file), lower(file_types[k]))
    /\ walk_files' = walk_files \ {p}
    /\ UNCHANGED <<fs, cwdfs, tree, walk_stack, visited, output, scanpc>>
    /\ UNCHANGED restOfScan

\* the file is processed: its section is written, process_file included.
\* An exception of process_file leaves the loop and scan_folder.
EmitFile(p) ==
    /\ scanpc = "walk"
    /\ p \in walk_files
    /\ LET file          == p[Len(p)]
           rel_path      == relpath(SubSeq(p, 1, Len(p) - 1))
           file_rel_path == rel_path \o <<file>>
           done          == process_file(file, file_rel_path, skip_substrings,
                                         strip_ipynb_outputs)
       IN  /\ ~truthy(should_exclude_file(file, file_rel_path, exclusion_patterns))
           /\ \/ file_types = <<>>
              \/ \E k \in 1..Len(file_types) :
                    endswith(lower(file), lower(file_types[k]))
           /\ output' = Append(output,
                  [file   |-> file_rel_path,
                   writes |-> <<[kind |-> "file", path |-> file_rel_path],
                                [kind |-> "dashes"]>>
                              \o done.writes
                              \o IF done.raised THEN <<>> ELSE <<[kind |-> "newline"]>>])
           /\ scanpc' = IF done.raised THEN "raised" ELSE scanpc
    /\ walk_files' = walk_files \ {p}
    /\ UNCHANGED <<fs, cwdfs, tree, walk_stack, visited>>
    /\ UNCHANGED restOfScan

\* os.walk is exhausted; the finally clause closes the writer
WalkEnd ==
    /\ scanpc = "walk"
    /\ walk_files = {}
    /\ walk_stack = <<>>
    /\ scanpc' = "done"
    /\ UNCHANGED <<fs, cwdfs, tree, walk_stack, walk_files, visited, output>>
    /\ UNCHANGED restOfScan

ScanNext ==
    \/ PrintDirectoryStructure
    \/ WalkDirectory
    \/ \E p \in walk_files : SkipFile(p)
    \/ \E p \in walk_files : EmitFile(p)
    \/ WalkEnd

MaxTreeSize == 3      \* directories and files below start_path

Dir(p)  == [path |-> p, dir |-> TRUE]
File(p) == [path |-> p, dir |-> FALSE]

\* the entries a scanned tree is made of
TreeCandidates ==
    { File(<<<<"a",".","p","y">>>>), File(<<<<"b","a","d",".","t","x","t">>>>), File(<<<<"b","a","d",".","i","p","y","n","b">>>>),
      Dir(<<<<"d","o","c","s">>>>), File(<<<<"d","o","c","s">>, <<"l","o","c","k","e","d",".","t","x","t">>>>),
      Dir(<<<<".","h","i","d","d","e","n">>>>), File(<<<<".","h","i","d","d","e","n">>, <<"a",".","p","y">>>>),
      Dir(<<<<"l","i","c","e","n","s","e",".","m","d">>>>), File(<<<<"l","i","c","e","n","s","e",".","m","d">>, <<"a",".","p","y">>>>),
      Dir(<<<<"n","o","d","e","_","m","o","d","u","l","e","s">>>>), File(<<<<"n","o","d","e","_","m","o","d","u","l","e","s">>, <<"x",".","p","y">>>>),
      Dir(<<<<"n","o","d","e","_","m","o","d","u","l","e","s">>, <<"l","i","b">>>>),
      File(<<<<"n","o","d","e","_","m","o","d","u","l","e","s">>, <<"l","i","b">>, <<"x",".","p","y">>>>) }

\* the trees of at most MaxTreeSize entries: an entry's directory is one
\* of the entries.  Every directory of a scanned tree can be listed.
Trees ==
    {[dirs       |-> {e.path : e \in {x \in t : x.dir}},
      files      |-> {e.path : e \in {x \in t : ~x.dir}},
      unlistable |-> {}] :
        t \in {s \in SUBSET TreeCandidates :
                  /\ Cardinality(s) <= MaxTreeSize
                  /\ \A e \in s : Len(e.path) > 1 =>
                        Dir(SubSeq(e.path, 1, Len(e.path) - 1)) \in s}}

\* the exclusion files of a scan: none, or one file of at most
\* MaxFileLines of these lines
ScanPatternInputs ==
    {<<>>} \cup
    {<<[status |-> "ok", lines |-> L]>> :
        L \in {M \in SUBSET {<<"d","o","c","s">>, <<"*","/","*">>} :
                  M # {} /\ Cardinality(M) <= MaxFileLines}}

\* scan_folder is called; the writer is open
ScanInit ==
    /\ fs \in Trees
    /\ cwdfs \in {fs, NoDir}
    /\ user_patterns \in
          {parse_exclusion_files(files).patterns \ default_patterns :
              files \in ScanPatternInputs}
    /\ file_types \in {<<>>, <<<<".","p","y">>>>}
    /\ skip_substrings \in {<<>>, <<<<"S","E","C","R","E","T">>>>}
    /\ strip_ipynb_outputs \in BOOLEAN
    /\ tree = {}
    /\ walk_stack = <<>>
    /\ walk_files = {}
    /\ visited = {}
    /\ output = <<>>
    /\ scanpc = "tree"
    /\ remaining_args = <<>>
    /\ arg_i = 0
    /\ exclusion_files = <<>>
    /\ max_chunk_size_mb = <<>>
    /\ mainpc = "scan"
    \* the other parts are at rest
    /\ cls = [pc |-> "idle"]
    /\ chunk_size_bytes = 0
    /\ current_file_index = 0
    /\ current_file = 0
    /\ current_size = 0
    /\ parts = <<>>
    /\ calls = [writes |-> <<>>, closed |-> TRUE]
----------------------------------------------------------------------------
(* The claims about the classifiers, under SpecClassify. *)

Returned(op) == cls.pc = "return" /\ cls.call.op = op

ClsPatterns == parse_exclusion_files(cls.call.files).patterns

\* C1: a file x.<ext> with <ext> in the default extension blocklist and no
\* protected extension is classified SKIP by should_exclude_file, whatever
\* the user's exclusion files are.
C1_BlocklistedFileIsSkipped ==
    ( /\ Returned("file")
      /\ cls.call.name \in BlocklistedFileNames
      /\ ~ \E ext \in PROTECTED_EXTENSIONS : endswith(cls.call.name, ext) )
    => truthy(cls.result)

\* C2: a file whose lower-cased name is license.md is SKIP, and every other
\* file whose lower-cased name ends with a protected extension is KEEP,
\* whatever the pattern set is.
C2_LicenseThenProtected ==
    Returned("file") =>
        /\ lower(cls.call.name) = <<"l","i","c","e","n","s","e",".","m","d">> => truthy(cls.result)
        /\ ( /\ lower(cls.call.name) # <<"l","i","c","e","n","s","e",".","m","d">>
             /\ \E ext \in PROTECTED_EXTENSIONS :
                    endswith(lower(cls.call.name), ext) )
           => ~truthy(cls.result)

\* a protected file that an exclusion pattern of the user matches was kept
C2_Witness ==
    /\ Returned("file")
    /\ cls.call.name = <<"A",".","P","Y">>
    /\ \E pat \in ClsPatterns \ default_patterns :
          fnmatch(lower(cls.call.name), lower(pat))
    /\ cls.result = PyFalse

\* C3: a directory named in the pattern builder's directory blocklist is
\* SKIP for every pattern set, also when it holds protected files.
C3_BlocklistedDirectoryIsSkipped ==
    (Returned("dir") /\ cls.call.name \in common_paths) => cls.result = TRUE

\* the directory of the call, as it is below the scan root, holds a name
\* ending with a protected extension and can be listed
RootDirHoldsProtected ==
    LET p == resolve(cls.call.rel_path)
    IN  /\ p \notin cls.call.rootfs.unlistable
        /\ \E f \in entries(cls.call.rootfs, p), ext \in PROTECTED_EXTENSIONS :
              endswith(f, ext)

\* C4: a hidden directory outside the always-skip list is KEEP when one of
\* its immediate children ends with a protected extension and SKIP
\* otherwise, for every scan root and every working directory.
C4_HiddenDirectoryKeptIffProtectedChild ==
    ( /\ Returned("dir")
      /\ startswith(cls.call.name, <<".">>)
      /\ cls.call.name # <<".">>
      /\ cls.call.name \notin ALWAYS_SKIP )
    => (cls.result = ~RootDirHoldsProtected)
----------------------------------------------------------------------------
(* The claims about the chunked writer, under SpecWriter. *)

RECURSIVE sum(_)
sum(sizes) == IF sizes = <<>> THEN 0 ELSE sizes[1] + sum(Tail(sizes))

TotalBytes == sum(calls.writes)

ceilDiv(n, y) == (n + y - 1) \div y

\* C6 as stated: once the writer is closed, writes totalling N > Y bytes
\* have made at least ceil(N/Y) part files.
C6_AtLeastCeilParts ==
    (calls.closed /\ TotalBytes > chunk_size_bytes)
    => Len(parts) >= ceilDiv(TotalBytes, chunk_size_bytes)

\* C6 amended: the same, for write calls none of which has a payload
\* larger than the budget.
C6_AtLeastCeilPartsOfSmallWrites ==
    ( /\ calls.closed
      /\ TotalBytes > chunk_size_bytes
      /\ \A k \in 1..Len(calls.writes) : calls.writes[k] <= chunk_size_bytes )
    => Len(parts) >= ceilDiv(TotalBytes, chunk_size_bytes)

\* three writes within the budget, more than two budgets in total, closed
C6_Witness ==
    /\ calls.closed
    /\ Len(calls.writes) >= 3
    /\ \A k \in 1..Len(calls.writes) : calls.writes[k] <= chunk_size_bytes
    /\ TotalBytes > 2 * chunk_size_bytes
    /\ Len(parts) >= 3

\* C7: a part file holds at most chunk_size_bytes bytes, unless it holds
\* exactly one write whose payload alone is larger; and a part is opened
\* before the write that would overflow the current one, never after it:
\* every part after the first was opened for a write and holds it, and the
\* current part holds the bytes counted in current_size.
C7_PartsWithinBudget ==
    /\ \A k \in 1..Len(parts) :
          \/ sum(parts[k].writes) <= chunk_size_bytes
          \/ Len(parts[k].writes) = 1 /\ parts[k].writes[1] > chunk_size_bytes
    /\ \A k \in 2..Len(parts) : parts[k].writes # <<>>
    /\ current_file # 0 => sum(parts[current_file].writes) = current_size

\* a write that did not fit was moved to a new part, an oversized one too
C7_Witness ==
    /\ Len(parts) >= 3
    /\ \E k \in 1..Len(parts) : sum(parts[k].writes) > chunk_size_bytes
    /\ \E k \in 2..Len(parts) :
          /\ Len(parts[k].writes) >= 2
          /\ sum(parts[k].writes) = chunk_size_bytes
----------------------------------------------------------------------------
(* The claims about main, under SpecMain. *)

RecognizedFlags == {<<"-","-","m","a","x","-","c","h","u","n","k","-","s","i","z","e">>, <<"-","-","s","k","i","p","-","s","u","b","s","t","r","i","n","g">>, <<"-","-","n","o","-","i","p","y","n","b","-","s","t","r","i","p">>}

\* the loop was left by the break at a token starting with "."
BrokeAtAllowlist == mainpc \in {"parse", "scan", "raised"} /\ file_types # <<>>

\* the position after the allowlist that starts at position d: that of the
\* next recognized flag, or the end of the arguments
AllowlistEnd(d) ==
    LET flags == {k \in (d + 1)..Len(remaining_args) :
                      remaining_args[k] \in RecognizedFlags}
    IN  IF flags = {} THEN Len(remaining_args) + 1
        ELSE CHOOSE k \in flags : \A m \in flags : k <= m

\* C8: the allowlist that a token starting with "." begins consists of the
\* tokens up to the next recognized flag only, and a recognized flag after
\* it is applied as a flag and is not part of file_types.
C8_AllowlistEndsAtNextFlag ==
    BrokeAtAllowlist =>
        LET d == arg_i + 1
            e == AllowlistEnd(d)
        IN  /\ file_types = SubSeq(remaining_args, d, e - 1)
            /\ \A k \in 1..Len(file_types) : file_types[k] \notin RecognizedFlags
            /\ (e <= Len(remaining_args) /\ remaining_args[e] = <<"-","-","n","o","-","i","p","y","n","b","-","s","t","r","i","p">>)
                  => ~strip_ipynb_outputs

\* C10: parse_exclusion_files skips every path that is missing or cannot be
\* opened or read: it raises nothing, returns the default patterns and
\* those of every readable file, and the run goes on to the scan.
C10_UnreadableExclusionFilesAreSkipped ==
    mainpc \in {"scan", "raised"} =>
        /\ mainpc = "scan"
        /\ exclusion_patterns =
              default_patterns \cup
              UNION {UNION {line_patterns(l) : l \in exclusion_file_at(exclusion_files[k]).lines} :
                        k \in {n \in 1..Len(exclusion_files) :
                                  exclusion_file_at(exclusion_files[n]).status = "ok"}}
----------------------------------------------------------------------------
(* The claims about the tree printer, the walk and process_file, under     *)
(* SpecScan.                                                               *)

EmittedFiles == {resolve(output[k].file) : k \in 1..Len(output)}

\* C5: with no extension allowlist, the files the walk writes a "File:"
\* section for are the file leaves the tree shows, and the directories the
\* walk goes into are the directories the tree shows.
C5_WalkEmitsWhatTheTreeShows ==
    (scanpc = "done" /\ file_types = <<>>) =>
        /\ EmittedFiles = {e.path : e \in {x \in tree : ~x.dir}}
        /\ visited \ {<<>>} = {e.path : e \in {x \in tree : x.dir}}

\* reading the file of a section fails: open or a readline raises, or the
\* file goes through the notebook branch and json.load rejects it
SectionFails(k) ==
    LET name == output[k].file[Len(output[k].file)]
        c    == file_content(name)
    IN  \/ c.fail_at >= 0
        \/ is_ipynb(name) /\ strip_ipynb_outputs /\ ~c.json_ok

\* the lines of the file that were written before the failure: the lines
\* read until then, those holding a skip substring left out; none for a
\* notebook, which is read whole before anything is written
LinesBeforeFailure(k) ==
    LET name  == output[k].file[Len(output[k].file)]
        c     == file_content(name)
        read  == IF is_ipynb(name) /\ strip_ipynb_outputs THEN <<>>
                 ELSE SubSeq(c.lines, 1, c.fail_at)
        keep(l) == \A n \in 1..Len(skip_substrings) :
                      skip_substrings[n] \notin l.contains
    IN  SelectSeq(read, keep)

\* the files the walk has to write a section for once it is over
FilesToEmit ==
    {p \in fs.files :
        /\ SubSeq(p, 1, Len(p) - 1) \in visited
        /\ ~truthy(should_exclude_file(p[Len(p)], relpath(SubSeq(p, 1, Len(p) - 1))
                                                   \o <<p[Len(p)]>>,
                                       exclusion_patterns))
        /\ \/ file_types = <<>>
           \/ \E k \in 1..Len(file_types) :
                 endswith(lower(p[Len(p)]), lower(file_types[k]))}

\* C9: process_file never raises to scan_folder for a failure of open, of a
\* read or of the notebook's JSON parse: the section of such a file holds
\* the lines written before the failure, then exactly one diagnostic line
\* and nothing more of the file, and the walk goes on to the other files.
C9_FileFailureBecomesOneDiagnostic ==
    /\ scanpc # "raised"
    /\ \A k \in 1..Len(output) :
          SectionFails(k) =>
              LET w == output[k].writes
                  n == Len(LinesBeforeFailure(k))
              IN  /\ Len(w) = n + 5
                  /\ w[1].kind = "file" /\ w[2].kind = "dashes"
                  /\ w[3].kind = "content of"
                  /\ \A m \in 1..n :
                        w[3 + m] = [kind |-> "line", line |-> LinesBeforeFailure(k)[m]]
                  /\ w[n + 4].kind = "error"
                  /\ w[n + 5].kind = "newline"
    /\ scanpc = "done" => EmittedFiles = FilesToEmit

\* a read failed in the middle of a file: its lines until then and one
\* diagnostic were written, and another file was written after it
C9_Witness ==
    /\ scanpc = "done"
    /\ \E k \in 1..Len(output) :
          /\ k < Len(output)
          /\ output[k].file[Len(output[k].file)] = <<"b","a","d",".","t","x","t">>
          /\ \E m \in 1..Len(output[k].writes) : output[k].writes[m].kind = "line"
          /\ \E m \in 1..Len(output[k].writes) : output[k].writes[m].kind = "error"
----------------------------------------------------------------------------
(* The claim about the life of the part files, under SpecWriterLife.       *)

OpenParts == {k \in 1..Len(parts) : parts[k].open}

\* a later part was opened
superseded(k) == \E j \in (k + 1)..Len(parts) : created(j)

\* at most one part file is open
AtMostOneOpen == Cardinality(OpenParts) <= 1

\* a part file that is no longer open was superseded, or the run has ended
OpenUntilSupersededOrEnd ==
    \A k \in 1..Len(parts) :
        (created(k) /\ ~parts[k].open) => (superseded(k) \/ calls.closed)

\* close was called on no part file twice, and once the run has ended it
\* was called on each once
ClosedExactlyOnce ==
    /\ \A k \in 1..Len(parts) : parts[k].closes <= 1
    /\ calls.closed =>
          \A k \in 1..Len(parts) :
              created(k) => (~parts[k].open /\ parts[k].closes = 1)

\* C11 as stated: through the life of a ChunkedFileWriter, rollovers whose
\* open fails included, at most one part file is open at any time, each
\* part file stays open until the next part supersedes it or the run ends,
\* and each part file is closed exactly once.
C11_PartFileLifecycle ==
    /\ AtMostOneOpen
    /\ OpenUntilSupersededOrEnd
    /\ ClosedExactlyOnce
----------------------------------------------------------------------------
(* The claim about letter case in should_skip_directory, under             *)
(* SpecClassify.  The function is compared with itself on the call that    *)
(* differs from the recorded one in letter case only.                      *)

\* the file system in which the directory at path p is named p2 instead
recased(f, p, p2) ==
    LET move(r) == IF Len(r) >= Len(p) /\ SubSeq(r, 1, Len(p)) = p
                   THEN p2 \o SubSeq(r, Len(p) + 1, Len(r))
                   ELSE r
    IN  [dirs       |-> {move(r) : r \in f.dirs},
         files      |-> {move(r) : r \in f.files},
         unlistable |-> {move(r) : r \in f.unlistable}]

\* the file system in which the files' names are in lower case
lowerFiles(f) ==
    [f EXCEPT !.files =
        {SubSeq(r, 1, Len(r) - 1) \o <<lower(r[Len(r)])>> : r \in f.files}]

\* the relative path of the recorded call with another name for the directory
relPathAs(n2) ==
    SubSeq(cls.call.rel_path, 1, Len(cls.call.rel_path) - 1) \o <<n2>>

\* the directory's name in another letter case gives the same result
SameForNameCase ==
    \A n2 \in ClassifyDirNames :
        lower(n2) = lower(cls.call.name) =>
            should_skip_directory(
                n2, relPathAs(n2), ClsPatterns,
                recased(cls.call.cwdfs, resolve(cls.call.rel_path),
                        resolve(relPathAs(n2))))
            = cls.result

\* the children's names in lower case give the same result
SameForChildCase ==
    should_skip_directory(cls.call.name, cls.call.rel_path, ClsPatterns,
                          lowerFiles(cls.call.cwdfs))
    = cls.result

\* C12: should_skip_directory gives the same KEEP/SKIP result for two
\* directory names that differ only in letter case, with the same children,
\* the same relative path up to case and the same pattern set; and its probe
\* for protected children does not depend on the case of a child's extension.
\* The calls compared are those of a run from the scan root, where the
\* relative path names the directory that is classified.
C12_DirectoryCaseInsensitive ==
    (Returned("dir") /\ cls.call.cwdfs = cls.call.rootfs)
    => (SameForNameCase /\ SameForChildCase)
----------------------------------------------------------------------------
(* The claim about the walk's pruning, under SpecScan. *)

\* the walk's call of should_skip_directory for the directory at path p,
\* with the relative path the walk builds for it
SkippedByWalk(p) ==
    should_skip_directory(p[Len(p)],
                          relpath(SubSeq(p, 1, Len(p) - 1)) \o <<p[Len(p)]>>,
                          exclusion_patterns, cwdfs)

\* the directory given by the first n names of path p is one the walk skips
UnderSkipped(p, n) ==
    \E k \in 1..n : SkippedByWalk(SubSeq(p, 1, k))

\* the directories the walk has visited or is going to visit
WalkDirs == visited \cup {walk_stack[k] : k \in 1..Len(walk_stack)}

\* the files the walk looks at or has written a section for
WalkFiles == walk_files \cup EmittedFiles

\* C13: in the walk of scan_folder a directory that should_skip_directory
\* classifies SKIP is removed before the descent.  The walk starts with no
\* directory and no file, and no step of it takes up a skipped directory
\* or a directory below one, to visit it now or later, or a file anywhere
\* under one, to look at it or to write it to the output, a file with a
\* protected extension included.
C13_SkippedSubtreesAreNeverVisited ==
    [][ /\ \A q \in WalkDirs' \ WalkDirs : ~UnderSkipped(q, Len(q))
        /\ \A f \in WalkFiles' \ WalkFiles : ~UnderSkipped(f, Len(f) - 1)
      ]_scanVars

\* the walk is over in a tree in which node_modules holds a directory with
\* a .py file: only the scan root was visited and nothing was written
C13_Witness ==
    /\ scanpc = "done"
    /\ <<<<"n","o","d","e","_","m","o","d","u","l","e","s">>, <<"l","i","b">>, <<"x",".","p","y">>>> \in fs.files
    /\ SkippedByWalk(<<<<"n","o","d","e","_","m","o","d","u","l","e","s">>>>)
    /\ ~SkippedByWalk(<<<<"n","o","d","e","_","m","o","d","u","l","e","s">>, <<"l","i","b">>>>)
    /\ visited = {<<>>}
    /\ output = <<>>
----------------------------------------------------------------------------
(* The specifications.  Each one runs one part of the program and leaves   *)
(* the variables of the other parts at rest.                               *)

vars == <<cls, writerVars, mainVars, scanVars>>

\* the classifiers on drawn arguments
SpecClassify == ClsInit /\ [][ClsNext]_vars

\* a ChunkedFileWriter from its construction to its close
SpecWriter == WriterInit /\ [][WriterNext]_vars

\* the same, with opens of parts that may raise
SpecWriterLife == WriterInit /\ [][WriterLifeNext]_vars

\* main from the argument loop to the call of scan_folder
SpecMain == MainInit /\ [][MainNext]_vars

\* scan_folder from its call to the end of the walk
SpecScan == ScanInit /\ [][ScanNext]_vars
=============================================================================
